---- MODULE Spec2Model ----
(***************************************************************************)
(* A model of src/l4.py, the Streamlit catphishing-awareness chat demo:    *)
(* the text sanitizer, the red-flag detector, the few-shot pool and        *)
(* sampler, the prompt assembler, the Gemini call wrapper and the session  *)
(* (chat_history, the input widgets, the Clear and Send handlers).         *)
(*                                                                         *)
(* Python strings are TLA+ strings; TLC evaluates Len, \o and SubSeq on    *)
(* them, so every text operation below works character by character.      *)
(***************************************************************************)
EXTENDS Integers, Sequences, FiniteSets, TLC

VARIABLES
    \* ---- the session (Spec): st.session_state, the widgets and one script run
    session_keys,   \* the keys present in st.session_state
    chat_history,   \* st.session_state["chat_history"]: a sequence of turns
    input_default,  \* st.session_state["input_default"]
    input_box,      \* the text the user has typed into the text_input widget
    clicked,        \* the button whose click started this run: "none" | "send" | "clear"
    pc,             \* where the script run stands; "idle" between runs
    widgets,        \* the widget keys created so far in this run
    user_input,     \* the run's local user_input
    send_pressed,   \* the run's local send_pressed
    clear_pressed,  \* the run's local clear_pressed
    prompt,         \* the prompt handed to get_gemini_reply, while the call is open
    resp,           \* what model.generate_content produced for it
    flags,          \* the red flags the last render showed
    clock,          \* the number of datetime.now() readings taken so far
    apikey,         \* os.environ.get("GEMINI_API_KEY"), "" when it is not set
    \* ---- the dataset and the few-shot pool (SpecPool; read by Spec)
    raw_samples,    \* the records load_scc returned
    pool_i,         \* the position of the pool-building loop in raw_samples
    few_shot_pool,  \* the pool of example texts
    pool_pc,        \* "load" | "build" | "ready" | "sampled"
    last_ex,        \* the outcome of the latest make_example_from_record call
    shots,          \* the pool positions random.sample drew in the latest build_few_shots
    few_shots,      \* the text the latest build_few_shots returned
    \* ---- the detector applied to a composed text (SpecFlags)
    fl_words,       \* the words the text is composed of
    fl_text,        \* the text handed to detect_red_flags
    fl_flags,       \* what detect_red_flags returned
    fl_pc,          \* "compose" | "done"
    \* ---- the sanitizer applied twice (SpecSanitize)
    san_in,         \* the text handed to sanitize_text
    san_once,       \* sanitize_text(san_in)
    san_twice,      \* sanitize_text(sanitize_text(san_in))
    san_pc,         \* "compose" | "once" | "twice"
    san_n           \* the number of fragments put into san_in

sessVars ==
    << session_keys, chat_history, input_default, input_box, clicked, pc, widgets,
       user_input, send_pressed, clear_pressed, prompt, resp, flags, clock, apikey >>
poolVars == << raw_samples, pool_i, few_shot_pool, pool_pc, last_ex, shots, few_shots >>
flagVars == << fl_words, fl_text, fl_flags, fl_pc >>
sanVars == << san_in, san_once, san_twice, san_pc, san_n >>

vars == << sessVars, poolVars, flagVars, sanVars >>

(***************************************************************************)
(* Characters and character classes.                                       *)
(***************************************************************************)
Char(s, i) == IF i >= 1 /\ i <= Len(s) THEN SubSeq(s, i, i) ELSE ""

CharsOf(s) == { SubSeq(s, i, i) : i \in 1..Len(s) }

StartsAt(s, i, p) ==
    /\ i >= 1
    /\ i + Len(p) - 1 <= Len(s)
    /\ SubSeq(s, i, i + Len(p) - 1) = p

\* str.startswith
StartsWith(s, p) == StartsAt(s, 1, p)

\* s[i:] with a 1-based i
From(s, i) == IF i > Len(s) THEN "" ELSE SubSeq(s, i, Len(s))

\* s[:n]
Take(s, n) == IF n >= Len(s) THEN s ELSE SubSeq(s, 1, n)

UpperLetters == "ABCDEFGHIJKLMNOPQRSTUVWXYZ"
LowerLetters == "abcdefghijklmnopqrstuvwxyz"
DigitChars == "0123456789"

Upper == CharsOf(UpperLetters)
Lower == CharsOf(LowerLetters)
Digit == CharsOf(DigitChars)
Alnum == Upper \cup Lower \cup Digit
\* \s of the re module and the whitespace of str.strip, on the ASCII text a
\* TLA+ string can hold (no vertical tab)
Space == { " ", "\t", "\n", "\r", "\f" }
\* \w of the re module, on ASCII text
WordChar == Alnum \cup { "_" }

\* the first index in lo..hi whose character is in cls (inside = TRUE) or is
\* not (inside = FALSE), or 0; the interval is halved to keep the evaluation
\* shallow, and the left half is searched first
RECURSIVE FirstChar(_, _, _, _, _)
FirstChar(cls, inside, s, lo, hi) ==
    IF lo > hi THEN 0
    ELSE IF lo = hi THEN (IF (Char(s, lo) \in cls) = inside THEN lo ELSE 0)
    ELSE LET mid == (lo + hi) \div 2
             l == FirstChar(cls, inside, s, lo, mid)
         IN  IF l > 0 THEN l ELSE FirstChar(cls, inside, s, mid + 1, hi)

\* the last index of the longest run of characters of cls that starts at i
\* (i - 1 when s[i] is not in cls)
RunEndIn(cls, s, i) ==
    LET stop == FirstChar(cls, FALSE, s, i, Len(s))
    IN  IF i > Len(s) THEN i - 1 ELSE IF stop = 0 THEN Len(s) ELSE stop - 1

\* the same for the characters outside cls
RunEndNotIn(cls, s, i) ==
    LET stop == FirstChar(cls, TRUE, s, i, Len(s))
    IN  IF i > Len(s) THEN i - 1 ELSE IF stop = 0 THEN Len(s) ELSE stop - 1

(***************************************************************************)
(* html.unescape, as sanitize_text calls it.  One pass over the text: at   *)
(* each "&" the character reference pattern                                *)
(*   &(#[0-9]+;?|#[xX][0-9a-fA-F]+;?|[^\t\n\f <&#;]{1,32};?)               *)
(* is tried, and a match is replaced by its expansion.  The expansion is   *)
(* not scanned again.                                                      *)
(***************************************************************************)
HexChars == "0123456789abcdefABCDEF"
HexDigit == CharsOf(HexChars)
NameStop == { "\t", "\n", "\f", " ", "<", "&", "#", ";" }

DigitValue(c) ==
    CASE c \in Digit -> (CHOOSE k \in 1..10 : Char(DigitChars, k) = c) - 1
      [] c \in CharsOf("abcdef") -> (CHOOSE k \in 1..6 : Char("abcdef", k) = c) + 9
      [] OTHER -> (CHOOSE k \in 1..6 : Char("ABCDEF", k) = c) + 9

\* int(s[i..j], base), capped: every code point above 1114111 expands alike
RECURSIVE ParseInt(_, _, _, _, _)
ParseInt(s, i, j, base, acc) ==
    IF i > j THEN acc
    ELSE LET n == acc * base + DigitValue(Char(s, i))
         IN  ParseInt(s, i + 1, j, base, IF n > 1114111 THEN 1114112 ELSE n)

\* the printable ASCII characters chr(32) .. chr(95) and chr(97) .. chr(126)
\* (a TLA+ string cannot hold chr(96), the backquote)
AsciiLow ==
    " !\"#$%&'()*+,-./0123456789:;<=>?@ABCDEFGHIJKLMNOPQRSTUVWXYZ[\\]^_"
AsciiHigh == "abcdefghijklmnopqrstuvwxyz{|}~"

\* the expansion of the numeric reference &#num; : chr(num) for ASCII text,
\* nothing for the invalid code points, and for every other code point a
\* character outside the modelled alphabet, written "?"
NumericRef(num) ==
    CASE num >= 32 /\ num <= 95 -> Char(AsciiLow, num - 31)
      [] num >= 97 /\ num <= 126 -> Char(AsciiHigh, num - 96)
      [] num = 9 -> "\t"
      [] num = 10 -> "\n"
      [] num = 12 -> "\f"
      [] num = 13 -> "\r"
      [] num \in (1..8) \cup {11} \cup (14..31) \cup {127} -> ""
      [] OTHER -> "?"

\* html.entities.html5 restricted to the names that ASCII text over the
\* modelled alphabet can spell; "" stands for a name that is not in the table
Html5(name) ==
    CASE name \in { "amp;", "amp", "AMP;", "AMP" } -> "&"
      [] name \in { "lt;", "lt", "LT;", "LT" } -> "<"
      [] name \in { "gt;", "gt", "GT;", "GT" } -> ">"
      [] name \in { "quot;", "quot", "QUOT;", "QUOT" } -> "\""
      [] name = "commat;" -> "@"
      [] name = "period;" -> "."
      [] name = "num;" -> "#"
      [] name = "semi;" -> ";"
      [] OTHER -> ""

\* the longest proper prefix s[:x], x from len(s)-1 down to 2, that is in the table
RECURSIVE LongestPrefix(_, _)
LongestPrefix(s, x) ==
    IF x < 2 THEN 0
    ELSE IF Html5(Take(s, x)) # "" THEN x
    ELSE LongestPrefix(s, x - 1)

\* _replace_charref for a named reference s (the text after "&", with its ";")
NamedRef(s) ==
    IF Html5(s) # "" THEN Html5(s)
    ELSE LET x == LongestPrefix(s, Len(s) - 1)
         IN  IF x > 0 THEN Html5(Take(s, x)) \o From(s, x + 1) ELSE "&" \o s

\* the end of the character reference that starts at the "&" at i, or 0
CharrefEnd(s, i) ==
    LET optSemi(e) == IF Char(s, e + 1) = ";" THEN e + 1 ELSE e
        dec == RunEndIn(Digit, s, i + 2)
        hex == RunEndIn(HexDigit, s, i + 3)
        nameMax == RunEndNotIn(NameStop, s, i + 1)
        name == IF nameMax > i + 32 THEN i + 32 ELSE nameMax
    IN  IF Char(s, i) # "&" THEN 0
        ELSE IF Char(s, i + 1) = "#" /\ dec >= i + 2 THEN optSemi(dec)
        ELSE IF Char(s, i + 1) = "#" /\ Char(s, i + 2) \in { "x", "X" } /\ hex >= i + 3
             THEN optSemi(hex)
        ELSE IF name >= i + 1 THEN optSemi(name)
        ELSE 0

\* the expansion of the reference s[i..e]
CharrefExpand(s, i, e) ==
    LET last == IF Char(s, e) = ";" THEN e - 1 ELSE e
    IN  IF Char(s, i + 1) = "#"
        THEN IF Char(s, i + 2) \in { "x", "X" }
             THEN NumericRef(ParseInt(s, i + 3, last, 16, 0))
             ELSE NumericRef(ParseInt(s, i + 2, last, 10, 0))
        ELSE NamedRef(SubSeq(s, i + 1, e))

(***************************************************************************)
(* The three redaction patterns and re.sub: leftmost match first, the      *)
(* match as long as the greedy quantifiers make it, then on from its end.  *)
(***************************************************************************)
EmailLocal == Alnum \cup { ".", "-", "_", "+" }
EmailDomain == Alnum \cup { "-", "_" }
EmailTail == Alnum \cup { "-", "." }
PhoneMid == Digit \cup Space \cup { "-", "(", ")" }

\* EMAIL_RE matched at exactly position i: the end of the match, or 0.
\* "@" is outside the local-part class and "." outside the domain class, so
\* each greedy run must end exactly where the next literal stands.
EMAIL_RE(s, i) ==
    LET j == RunEndIn(EmailLocal, s, i)
        k == RunEndIn(EmailDomain, s, j + 2)
        m == RunEndIn(EmailTail, s, k + 2)
    IN  IF /\ j >= i
           /\ Char(s, j + 1) = "@"
           /\ k >= j + 2
           /\ Char(s, k + 1) = "."
           /\ m >= k + 2
        THEN m ELSE 0

\* the last digit of s[lo..hi], or 0
RECURSIVE LastDigit(_, _, _)
LastDigit(s, lo, hi) ==
    IF hi < lo THEN 0
    ELSE IF Char(s, hi) \in Digit THEN hi
    ELSE LastDigit(s, lo, hi - 1)

\* PHONE_RE matched at exactly position i: an optional "+", a digit, at least
\* six characters of the middle class and a digit; the greedy middle run gives
\* back characters until it is followed by a digit.
PHONE_RE(s, i) ==
    LET d == IF Char(s, i) = "+" THEN i + 1 ELSE i
        r == RunEndIn(PhoneMid, s, d + 1)
    IN  IF Char(s, d) \in Digit THEN LastDigit(s, d + 7, r) ELSE 0

\* URL_RE matched at exactly position i
URL_RE(s, i) ==
    LET rest(p) == LET r == RunEndNotIn(Space, s, p) IN IF r >= p THEN r ELSE 0
    IN  IF StartsAt(s, i, "https://") /\ rest(i + 8) > 0 THEN rest(i + 8)
        ELSE IF StartsAt(s, i, "http://") /\ rest(i + 7) > 0 THEN rest(i + 7)
        ELSE IF StartsAt(s, i, "www.") THEN rest(i + 4)
        ELSE 0

\* a compiled pattern matched at exactly position i: the end of the match, or 0
MatchEnd(pat, s, i) ==
    CASE pat = "charref" -> CharrefEnd(s, i)
      [] pat = "email" -> EMAIL_RE(s, i)
      [] pat = "phone" -> PHONE_RE(s, i)
      [] OTHER -> URL_RE(s, i)

\* what the match s[i..e] is replaced by
Replacement(pat, s, i, e) ==
    CASE pat = "charref" -> CharrefExpand(s, i, e)
      [] pat = "email" -> "[REDACTED_EMAIL]"
      [] pat = "phone" -> "[REDACTED_PHONE]"
      [] OTHER -> "[REDACTED_URL]"

\* the leftmost position in lo..hi where the pattern matches, or 0
RECURSIVE FirstMatch(_, _, _, _)
FirstMatch(pat, s, lo, hi) ==
    IF lo > hi THEN 0
    ELSE IF lo = hi THEN (IF MatchEnd(pat, s, lo) > 0 THEN lo ELSE 0)
    ELSE LET mid == (lo + hi) \div 2
             l == FirstMatch(pat, s, lo, mid)
         IN  IF l > 0 THEN l ELSE FirstMatch(pat, s, mid + 1, hi)

\* pattern.sub on s[i..]: the text up to the leftmost match is kept, the match
\* is replaced, and the scan goes on after the match; replacements are not
\* scanned again
RECURSIVE re_sub(_, _, _)
re_sub(pat, s, i) ==
    LET k == FirstMatch(pat, s, i, Len(s))
        e == MatchEnd(pat, s, k)
    IN  IF k = 0 THEN From(s, i)
        ELSE (IF k > i THEN SubSeq(s, i, k - 1) ELSE "")
             \o Replacement(pat, s, k, e) \o re_sub(pat, s, e + 1)

\* pattern.search
re_search(pat, s) == FirstMatch(pat, s, 1, Len(s)) > 0

html_unescape(s) == re_sub("charref", s, 1)

HasEmail(s) == re_search("email", s)
HasPhone(s) == re_search("phone", s)
HasUrl(s) == re_search("url", s)

\* the substitutions of the patterns, one after the other
RECURSIVE re_sub_each(_, _)
re_sub_each(pats, s) ==
    IF pats = << >> THEN s
    ELSE re_sub_each(Tail(pats), re_sub(pats[1], s, 1))

\* html.unescape, then EMAIL_RE.sub, PHONE_RE.sub and URL_RE.sub
sanitize_text(s) ==
    IF s = "" THEN ""
    ELSE re_sub_each(<< "charref", "email", "phone", "url" >>, s)

(***************************************************************************)
(* str.lower, str.strip and str.capitalize on ASCII text.                  *)
(***************************************************************************)
LowerChar(c) ==
    IF c \in Upper THEN Char(LowerLetters, CHOOSE k \in 1..26 : Char(UpperLetters, k) = c)
    ELSE c

UpperChar(c) ==
    IF c \in Lower THEN Char(UpperLetters, CHOOSE k \in 1..26 : Char(LowerLetters, k) = c)
    ELSE c

\* the characters s[lo..hi] lower-cased (halving keeps the evaluation shallow)
RECURSIVE LowerRange(_, _, _)
LowerRange(s, lo, hi) ==
    IF lo > hi THEN ""
    ELSE IF lo = hi THEN LowerChar(Char(s, lo))
    ELSE LET mid == (lo + hi) \div 2
         IN  LowerRange(s, lo, mid) \o LowerRange(s, mid + 1, hi)

str_lower(s) == LowerRange(s, 1, Len(s))

str_capitalize(s) == IF s = "" THEN "" ELSE UpperChar(Char(s, 1)) \o LowerRange(s, 2, Len(s))

RECURSIVE LastNotIn(_, _, _)
LastNotIn(cls, s, i) ==
    IF i >= 1 /\ Char(s, i) \in cls THEN LastNotIn(cls, s, i - 1) ELSE i

str_strip(s) ==
    LET a == RunEndIn(Space, s, 1) + 1
        b == LastNotIn(Space, s, Len(s))
    IN  IF a > b THEN "" ELSE SubSeq(s, a, b)

(***************************************************************************)
(* detect_red_flags: six re.search tests on the lower-cased text, each     *)
(* appending its flag.                                                     *)
(***************************************************************************)
\* \b at the gap before position p: exactly one neighbour is a word character
WordBoundary(t, p) == (Char(t, p - 1) \in WordChar) # (Char(t, p) \in WordChar)

\* re.search(r"\b(a|b|...)\b", t) for literal alternatives
SearchWords(t, alts) ==
    \E i \in 1..Len(t) :
        /\ WordBoundary(t, i)
        /\ \E a \in alts : StartsAt(t, i, a) /\ WordBoundary(t, i + Len(a))

\* re.search(r"\b(send .* rupees)\b", t): "." matches no newline
SearchSendRupees(t) ==
    \E i \in 1..Len(t) :
        /\ WordBoundary(t, i)
        /\ StartsAt(t, i, "send ")
        /\ \E j \in (i + 5)..Len(t) :
              /\ StartsAt(t, j, " rupees")
              /\ WordBoundary(t, j + 7)
              /\ \A k \in (i + 5)..(j - 1) : Char(t, k) # "\n"

FlagPhoto == "Asks for personal photo/selfie"
FlagMoney == "Asks for money/transfer"
FlagVideo == "Avoids live verification/video call"
FlagPrivate == "Wants to move chat to private app"
FlagAffection == "Fast affection / emotional push"
FlagSensitive == "Sensitive data request (password/OTP/bank) - CRITICAL"

\* the six flags in rule order
AllFlags == << FlagPhoto, FlagMoney, FlagVideo, FlagPrivate, FlagAffection, FlagSensitive >>

PhotoWords == { "selfie", "photo", "picture" }
MoneyWords == { "money", "transfer", "wallet", "pay" }
VideoWords ==
    { "can't video", "camera broken", "no video", "can't call", "avoid video", "no camera" }
PrivateWords == { "whatsapp", "telegram", "private chat", "dm me", "message me privately" }
AffectionWords == { "love you", "i love you", "miss you", "so sweet", "so beautiful" }
SensitiveWords == { "password", "otp", "one-time", "pin", "bank", "account" }

AffectionMaxLen == 120

\* detect_red_flags with rule 5 testing the phrase only, not the length
detect_red_flags_any_length(text) ==
    LET t == str_lower(text)
        add(cond, flag) == IF cond THEN << flag >> ELSE << >>
    IN  add(SearchWords(t, PhotoWords), FlagPhoto)
        \o add(SearchWords(t, MoneyWords) \/ SearchSendRupees(t), FlagMoney)
        \o add(SearchWords(t, VideoWords), FlagVideo)
        \o add(SearchWords(t, PrivateWords), FlagPrivate)
        \o add(SearchWords(t, AffectionWords), FlagAffection)
        \o add(SearchWords(t, SensitiveWords), FlagSensitive)

detect_red_flags(text) ==
    LET t == str_lower(text)
        add(cond, flag) == IF cond THEN << flag >> ELSE << >>
    IN  add(SearchWords(t, PhotoWords), FlagPhoto)
        \o add(SearchWords(t, MoneyWords) \/ SearchSendRupees(t), FlagMoney)
        \o add(SearchWords(t, VideoWords), FlagVideo)
        \o add(SearchWords(t, PrivateWords), FlagPrivate)
        \o add(SearchWords(t, AffectionWords) /\ Len(t) < AffectionMaxLen, FlagAffection)
        \o add(SearchWords(t, SensitiveWords), FlagSensitive)

(***************************************************************************)
(* The values json.loads returns, tagged with their Python type.  A dict   *)
(* is the sequence of its <<key, value>> pairs in insertion order.         *)
(***************************************************************************)
PyStr(s) == [t |-> "str", v |-> s]
PyInt(n) == [t |-> "int", v |-> n]
PyNone == [t |-> "none", v |-> 0]
PyList(xs) == [t |-> "list", v |-> xs]
PyDict(kvs) == [t |-> "dict", v |-> kvs]

\* `not x` is false
Truthy(x) ==
    CASE x.t = "str" -> x.v # ""
      [] x.t = "int" -> x.v # 0
      [] x.t = "none" -> FALSE
      [] OTHER -> Len(x.v) > 0

\* key in d, for a dict d
HasKey(d, key) == \E i \in 1..Len(d.v) : d.v[i][1] = key

\* d[key]
Lookup(d, key) == d.v[CHOOSE i \in 1..Len(d.v) : d.v[i][1] = key][2]

\* d.get(key, default)
DictGet(d, key, default) == IF HasKey(d, key) THEN Lookup(d, key) ELSE default

\* sub in s, for strings
Contains(s, sub) == \E i \in 1..(Len(s) + 1) : StartsAt(s, i, sub)

RECURSIVE NatToStr(_)
NatToStr(n) ==
    IF n < 10 THEN Char(DigitChars, n + 1)
    ELSE NatToStr(n \div 10) \o Char(DigitChars, (n % 10) + 1)

IntToStr(n) == IF n < 0 THEN "-" \o NatToStr(-n) ELSE NatToStr(n)

\* the result of a call: a string, or the exception it raised
Ok(s) == [ok |-> TRUE, val |-> s]
Raised(e) == [ok |-> FALSE, val |-> e]

\* json.dumps of a string: quoted, with the quote, the backslash and the
\* control characters escaped
JsonEscapeChar(c) ==
    CASE c = "\"" -> "\\\""
      [] c = "\\" -> "\\\\"
      [] c = "\n" -> "\\n"
      [] c = "\t" -> "\\t"
      [] c = "\r" -> "\\r"
      [] c = "\f" -> "\\f"
      [] OTHER -> c

RECURSIVE JsonEscape(_, _, _)
JsonEscape(s, lo, hi) ==
    IF lo > hi THEN ""
    ELSE IF lo = hi THEN JsonEscapeChar(Char(s, lo))
    ELSE LET mid == (lo + hi) \div 2
         IN  JsonEscape(s, lo, mid) \o JsonEscape(s, mid + 1, hi)

JsonString(s) == "\"" \o JsonEscape(s, 1, Len(s)) \o "\""

\* json.dumps(x) with the default separators ", " and ": "
RECURSIVE JsonDumps(_)
JsonDumps(x) ==
    LET item(i) ==
            IF x.t = "dict"
            THEN JsonString(x.v[i][1]) \o ": " \o JsonDumps(x.v[i][2])
            ELSE JsonDumps(x.v[i])
        join[i \in 0..Len(x.v)] ==
            IF i = 0 THEN ""
            ELSE IF i = 1 THEN item(1)
            ELSE join[i - 1] \o ", " \o item(i)
    IN  CASE x.t = "str" -> JsonString(x.v)
          [] x.t = "int" -> IntToStr(x.v)
          [] x.t = "none" -> "null"
          [] x.t = "list" -> "[" \o join[Len(x.v)] \o "]"
          [] OTHER -> "{" \o join[Len(x.v)] \o "}"

\* str(x) for a value that is neither a dict nor a list
PyStrOf(x) ==
    CASE x.t = "str" -> x.v
      [] x.t = "int" -> IntToStr(x.v)
      [] OTHER -> "None"

\* sanitize_text called with any value: a falsy value gives "", a string is
\* sanitized, and any other value makes html.unescape or re.sub raise TypeError
sanitize_value(x) ==
    IF ~Truthy(x) THEN Ok("")
    ELSE IF x.t = "str" THEN Ok(sanitize_text(x.v))
    ELSE Raised("TypeError")

(***************************************************************************)
(* make_example_from_record.                                               *)
(***************************************************************************)
MaxTurns == 6
MaxExampleLen == 400

\* one pass of the loop body over a turn t: the line "Speaker: text", or the
\* exception raised
ExampleTurn(t) ==
    LET isPair == t.t = "list"
        sp == CASE t.t = "dict" -> DictGet(t, "speaker", PyStr("scammer"))
                [] isPair /\ Len(t.v) >= 1 -> t.v[1]
                [] OTHER -> PyStr("scammer")
        first == IF t.t = "dict" THEN DictGet(t, "text", PyStr("")) ELSE PyNone
        text == CASE t.t = "dict" ->
                       IF Truthy(first) THEN first ELSE DictGet(t, "message", PyStr(""))
                  [] isPair /\ Len(t.v) >= 2 -> t.v[2]
                  [] OTHER -> PyStr(PyStrOf(t))
        clean == sanitize_value(text)
    IN  IF isPair /\ Len(t.v) < 2 THEN Raised("IndexError")
        ELSE IF ~clean.ok THEN clean
        ELSE IF sp.t # "str" THEN Raised("AttributeError")
        ELSE Ok(str_capitalize(sp.v) \o ": " \o clean.val)

\* the loop over rec["dialogue"][:6] and the join of its lines with "\n"
RECURSIVE ExampleTurns(_, _, _)
ExampleTurns(dlg, i, acc) ==
    IF i > Len(dlg) \/ i > MaxTurns THEN Ok(acc)
    ELSE LET line == ExampleTurn(dlg[i])
         IN  IF ~line.ok THEN line
             ELSE ExampleTurns(dlg, i + 1, IF i = 1 THEN line.val ELSE acc \o "\n" \o line.val)

\* sanitize_text(x)[:400]
SanitizedField(x) ==
    LET clean == sanitize_value(x)
    IN  IF clean.ok THEN Ok(Take(clean.val, MaxExampleLen)) ELSE clean

\* "key" in rec, for a record of any JSON type
RecHas(rec, key) ==
    CASE rec.t = "dict" -> Ok(HasKey(rec, key))
      [] rec.t = "list" -> Ok(\E i \in 1..Len(rec.v) : rec.v[i].t = "str" /\ rec.v[i].v = key)
      [] rec.t = "str" -> Ok(Contains(rec.v, key))
      [] OTHER -> Raised("TypeError")

make_example_from_record(rec) ==
    LET hasDialogue == RecHas(rec, "dialogue")
        hasText == RecHas(rec, "text")
        hasMessage == RecHas(rec, "message")
    IN  IF ~hasDialogue.ok THEN hasDialogue
        \* rec["key"] on a list or a string raises TypeError
        ELSE IF hasDialogue.val /\ rec.t # "dict" THEN Raised("TypeError")
        ELSE IF hasDialogue.val /\ Lookup(rec, "dialogue").t = "list"
             THEN ExampleTurns(Lookup(rec, "dialogue").v, 1, "")
        ELSE IF (hasText.val \/ hasMessage.val) /\ rec.t # "dict" THEN Raised("TypeError")
        ELSE SanitizedField(IF hasText.val THEN Lookup(rec, "text")
                            ELSE IF hasMessage.val THEN Lookup(rec, "message")
                            ELSE PyStr(JsonDumps(rec)))


(***************************************************************************)
(* The few-shot pool and build_few_shots.                                  *)
(***************************************************************************)
MinExampleLen == 10

\* the built-in examples (the dash and the rupee sign of the source are
\* written in ASCII: a TLA+ string holds ASCII only)
FallbackPool ==
    << "Scammer: [SIMULATION] Hey, I saw your pics - you seem so sweet! Can we chat privately?\nTarget: Okay.\nScammer: I'm abroad for work, phone camera broken, can you send a selfie?",
       "Scammer: [SIMULATION] Hi! I'm new here, we seem similar. Can I add you on WhatsApp?\nTarget: Maybe. What's your number?\nScammer: I'll DM you, I prefer private chat.",
       "Scammer: [SIMULATION] I lost my wallet yesterday, can you help me send Rs.500 for taxi? (SIMULATION - do not send money)\nTarget: Sorry, I can't." >>

\* the pool test with "at least 10 characters" in place of "more than 10"
KeepExampleFromTen(ex) == ex.ok /\ ex.val # "" /\ Len(ex.val) >= MinExampleLen

\* `if ex and len(ex) > 10` for the outcome ex of make_example_from_record;
\* a record whose call raised is skipped by the except clause
KeepExample(ex) == ex.ok /\ ex.val # "" /\ Len(ex.val) > MinExampleLen

\* `if not few_shot_pool`: the built-in examples replace an empty pool
PoolOrFallback(pool) == IF pool = << >> THEN FallbackPool ELSE pool

\* sep.join(xs)
RECURSIVE Join(_, _)
Join(xs, sep) ==
    IF xs = << >> THEN ""
    ELSE IF Len(xs) = 1 THEN xs[1]
    ELSE xs[1] \o sep \o Join(Tail(xs), sep)

Min(a, b) == IF a <= b THEN a ELSE b

\* random.sample(pool, k): every sequence of k distinct positions of the pool
\* is a possible draw
SampleDraws(pool, k) ==
    { f \in [1..k -> 1..Len(pool)] : \A a, b \in 1..k : a # b => f[a] # f[b] }

\* the draws build_few_shots(n) can make
FewShotDraws(pool, n) == SampleDraws(pool, Min(n, Len(pool)))

\* build_few_shots(n), for the draw random.sample made
build_few_shots(pool, draw) == Join([k \in 1..Len(draw) |-> pool[draw[k]]], "\n\n")

(***************************************************************************)
(* build_prompt and get_gemini_reply.                                      *)
(***************************************************************************)
SystemRules ==
    "You are a simulation persona for awareness training. NEVER request or accept passwords, OTPs, bank details, or any PII."
    \o " ALWAYS prefix simulated attacker responses with [SIMULATION] and defender messages with [DEFENDER MODE]."

CatphisherPersona ==
    "Role: You are roleplaying a fake persona (catphisher) named 'Lizzy' for training only. "
    \o "Simulate typical catphishing behaviour (fast affection, requests to move chat, avoidance of video)."

DefenderPersona ==
    "Role: You are a Defender Assistant. Analyze the incoming message, list up to 3 red flags, propose 2 safe replies, and give reporting steps. Begin with [DEFENDER MODE]."

UserMessageHeader == "\n\nUser message:\n"
ResponseCue == "\n\nResponse:"

\* build_prompt, for the few-shot text build_few_shots returned
build_prompt(mode, user_message, shotsText) ==
    SystemRules \o "\n"
    \o (IF mode = "Catphisher" THEN CatphisherPersona ELSE DefenderPersona)
    \o "\nFEW-SHOT EXAMPLES:\n" \o shotsText
    \o UserMessageHeader \o user_message \o ResponseCue

\* the text in the "User message" slot of a prompt build_prompt made
UserMessageSlot(p) ==
    LET at == CHOOSE i \in 1..Len(p) :
                  /\ StartsAt(p, i, UserMessageHeader)
                  /\ \A j \in 1..(i - 1) : ~StartsAt(p, j, UserMessageHeader)
        first == at + Len(UserMessageHeader)
        last == Len(p) - Len(ResponseCue)
    IN  IF first > last THEN "" ELSE SubSeq(p, first, last)

SimulationMarker == "[SIMULATION]"
DefenderMarker == "[DEFENDER MODE]"

NoKeyNotice == "[SIMULATION] (Gemini API key not set; running in offline demo mode)"
ErrorNotice(e) == "[SIMULATION] (Error contacting Gemini: " \o e \o ")"

\* what model.generate_content can produce
TextResp(s) == [kind |-> "text", val |-> s]          \* a response with .text
TextNone == [kind |-> "text_none", val |-> ""]       \* .text is None
DictResp(s) == [kind |-> "dict", val |-> s]          \* a dict with candidates[0]["content"]
DictEmpty == [kind |-> "dict_empty", val |-> ""]     \* a dict with no candidate
ObjectResp(s) == [kind |-> "object", val |-> s]      \* anything else, shown by str()
CallRaises(e) == [kind |-> "raises", val |-> e]      \* the call raised Exception(e)
NoResp == [kind |-> "none", val |-> ""]              \* no call was made

\* get_gemini_reply without its try/except: a failure of the call reaches the
\* caller as the exception
get_gemini_reply_unguarded(key, r) ==
    IF key = "" THEN Ok(NoKeyNotice)
    ELSE CASE r.kind = "text" -> Ok(str_strip(r.val))
           [] r.kind = "text_none" -> Raised("AttributeError")
           [] r.kind = "dict" -> Ok(str_strip(r.val))
           [] r.kind = "dict_empty" -> Raised("IndexError")
           [] r.kind = "object" -> Ok(r.val)
           [] OTHER -> Raised(r.val)

\* get_gemini_reply, for the response r of the model call; without an API key
\* no call is made.  Every exception inside the try block is turned into the
\* error notice.
get_gemini_reply(key, r) ==
    IF key = "" THEN Ok(NoKeyNotice)
    ELSE CASE r.kind = "text" -> Ok(str_strip(r.val))
           [] r.kind = "text_none" ->
                  Ok(ErrorNotice("'NoneType' object has no attribute 'strip'"))
           [] r.kind = "dict" -> Ok(str_strip(r.val))
           [] r.kind = "dict_empty" -> Ok(ErrorNotice("list index out of range"))
           [] r.kind = "object" -> Ok(r.val)
           [] OTHER -> Ok(ErrorNotice(r.val))

(***************************************************************************)
(* The Send and Clear handlers' steps.                                     *)
(***************************************************************************)
SensitiveTerms == << "password", "otp", "pin", "bank", "account", "card", "cvv" >>

\* (password|otp|pin|bank|account|card|cvv) with re.I matched at exactly
\* position i: the end of the first alternative that matches, or 0
SensitiveEnd(s, i) ==
    LET hit(k) ==
            LET e == i + Len(SensitiveTerms[k]) - 1
            IN  e <= Len(s) /\ str_lower(SubSeq(s, i, e)) = SensitiveTerms[k]
        ks == { k \in 1..Len(SensitiveTerms) : hit(k) }
    IN  IF ks = {} THEN 0
        ELSE i + Len(SensitiveTerms[CHOOSE k \in ks : \A m \in ks : k <= m]) - 1

RECURSIVE FirstSensitive(_, _, _)
FirstSensitive(s, lo, hi) ==
    IF lo > hi THEN 0
    ELSE IF lo = hi THEN (IF SensitiveEnd(s, lo) > 0 THEN lo ELSE 0)
    ELSE LET mid == (lo + hi) \div 2
             l == FirstSensitive(s, lo, mid)
         IN  IF l > 0 THEN l ELSE FirstSensitive(s, mid + 1, hi)

\* re.sub(..., "[REDACTED_SENSITIVE]", s, flags=re.I) on s[i..]
RECURSIVE SensitiveSub(_, _)
SensitiveSub(s, i) ==
    LET k == FirstSensitive(s, i, Len(s))
    IN  IF k = 0 THEN From(s, i)
        ELSE (IF k > i THEN SubSeq(s, i, k - 1) ELSE "")
             \o "[REDACTED_SENSITIVE]" \o SensitiveSub(s, SensitiveEnd(s, k) + 1)

\* sensitive_found: re.search on user_input.lower()
SensitiveFound(s) == FirstSensitive(str_lower(s), 1, Len(s)) > 0

\* user_input_sanitized
InputSanitized(s) == IF SensitiveFound(s) THEN SensitiveSub(s, 1) ELSE s

\* the blank test without its .strip() half
IsEmptyText(s) == s = ""

\* `not user_input or not user_input.strip()`
IsBlank(s) == s = "" \/ str_strip(s) = ""

\* the reply stored as the model gave it
ReplyAsGiven(reply) == reply

\* the marker check on ai_reply; current_mode is always "Catphisher"
EnsureMarker(reply) ==
    IF StartsWith(reply, SimulationMarker) \/ StartsWith(reply, DefenderMarker)
    THEN reply
    ELSE "[SIMULATION] " \o reply

Turn(role, text, ts) == [role |-> role, text |-> text, ts |-> ts]

\* the history replaced by the new turn
OnlyTurn(history, turn) == << turn >>

\* st.session_state["chat_history"].append(turn)
AppendTurn(history, turn) == Append(history, turn)

Greeting ==
    "[SIMULATION] Hello! This is a catphishing simulation demo. Send a message in Tenglish or English."

\* Streamlit refuses a second widget with a key already used in the same run
\* (DuplicateWidgetID)
DuplicateWidgetKey(created, key) == key \in created

\* the text of the last turn of role "bot", "" when there is none
LastBotText(history) ==
    LET bots == { i \in 1..Len(history) : history[i].role = "bot" }
    IN  IF bots = {} THEN ""
        ELSE history[CHOOSE i \in bots : \A j \in bots : j <= i].text

(***************************************************************************)
(* The values of the variables a specification does not use.               *)
(***************************************************************************)
SessionOff ==
    /\ session_keys = {}
    /\ chat_history = << >>
    /\ input_default = ""
    /\ input_box = ""
    /\ clicked = "none"
    /\ pc = "off"
    /\ widgets = {}
    /\ user_input = ""
    /\ send_pressed = FALSE
    /\ clear_pressed = FALSE
    /\ prompt = ""
    /\ resp = NoResp
    /\ flags = << >>
    /\ clock = 0
    /\ apikey = ""

PoolOff ==
    /\ raw_samples = << >>
    /\ pool_i = 1
    /\ few_shot_pool = FallbackPool
    /\ pool_pc = "ready"
    /\ last_ex = Ok("")
    /\ shots = << >>
    /\ few_shots = ""

FlagsOff ==
    /\ fl_words = << >>
    /\ fl_text = ""
    /\ fl_flags = << >>
    /\ fl_pc = "off"

SanitizeOff ==
    /\ san_in = ""
    /\ san_once = ""
    /\ san_twice = ""
    /\ san_pc = "off"
    /\ san_n = 0

(***************************************************************************)
(* SpecSanitize: sanitize_text applied to a text put together from         *)
(* fragments, and applied again to its own result.                         *)
(***************************************************************************)
MaxFragments == 3

SanFragments == { "&amp;", "amp;", "#64;", "&#64;", "a", "@b.co", " ", "12345678", "www.x" }

SanInit ==
    /\ san_in = ""
    /\ san_once = ""
    /\ san_twice = ""
    /\ san_pc = "compose"
    /\ san_n = 0
    /\ SessionOff /\ PoolOff /\ FlagsOff

SanAppend(f) ==
    /\ san_pc = "compose"
    /\ san_n < MaxFragments
    /\ san_in' = san_in \o f
    /\ san_n' = san_n + 1
    /\ UNCHANGED << san_once, san_twice, san_pc >>
    /\ UNCHANGED << sessVars, poolVars, flagVars >>

SanitizeOnce ==
    /\ san_pc = "compose"
    /\ san_once' = sanitize_text(san_in)
    /\ san_pc' = "once"
    /\ UNCHANGED << san_in, san_twice, san_n >>
    /\ UNCHANGED << sessVars, poolVars, flagVars >>

SanitizeTwice ==
    /\ san_pc = "once"
    /\ san_twice' = sanitize_text(san_once)
    /\ san_pc' = "twice"
    /\ UNCHANGED << san_in, san_once, san_n >>
    /\ UNCHANGED << sessVars, poolVars, flagVars >>

SanNext ==
    \/ \E f \in SanFragments : SanAppend(f)
    \/ SanitizeOnce
    \/ SanitizeTwice

SpecSanitize == SanInit /\ [][SanNext]_vars

\* C3: sanitize_text is idempotent: sanitizing the result of sanitize_text
\* again changes nothing, whatever the input (entity-encoded text included).
SanitizeIdempotent == san_pc = "twice" => san_twice = san_once

(***************************************************************************)
(* SpecFlags: detect_red_flags applied to a text put together from words.  *)
(***************************************************************************)
MaxWords == 3

RECURSIVE Rep(_, _)
Rep(c, n) ==
    IF n <= 0 THEN ""
    ELSE IF n = 1 THEN c
    ELSE Rep(c, n \div 2) \o Rep(c, n - (n \div 2))

\* fillers that bring "I love you" plus one filler to one character under
\* the limit of rule 5, and to the limit exactly
PadUnder == Rep("x", AffectionMaxLen - 12)
PadAt == Rep("x", AffectionMaxLen - 11)

FlVocabulary ==
    { "selfie", "Photo", "photos", "pay", "send", "rupees", "\n", "no video", "dm me",
      "I love you", "OTP", PadUnder, PadAt }

FlInit ==
    /\ fl_words = << >>
    /\ fl_text = ""
    /\ fl_flags = << >>
    /\ fl_pc = "compose"
    /\ SessionOff /\ PoolOff /\ SanitizeOff

FlAddWord(w) ==
    /\ fl_pc = "compose"
    /\ Len(fl_words) < MaxWords
    /\ fl_words' = Append(fl_words, w)
    /\ fl_text' = IF fl_words = << >> THEN w ELSE fl_text \o " " \o w
    /\ UNCHANGED << fl_flags, fl_pc >>
    /\ UNCHANGED << sessVars, poolVars, sanVars >>

FlDetect ==
    /\ fl_pc = "compose"
    /\ fl_flags' = detect_red_flags(fl_text)
    /\ fl_pc' = "done"
    /\ UNCHANGED << fl_words, fl_text >>
    /\ UNCHANGED << sessVars, poolVars, sanVars >>

FlNext ==
    \/ \E w \in FlVocabulary : FlAddWord(w)
    \/ FlDetect

SpecFlags == FlInit /\ [][FlNext]_vars

\* the rule a word of the vocabulary triggers by itself
RuleOfWord(w) ==
    CASE w = "selfie" -> {1}
      [] w = "Photo" -> {1}
      [] w = "pay" -> {2}
      [] w = "no video" -> {3}
      [] w = "dm me" -> {4}
      [] w = "I love you" -> {5}
      [] w = "OTP" -> {6}
      [] OTHER -> {}

\* "send", then at least one more word and no line break, then "rupees"
SendsRupees(words) ==
    \E a, b \in 1..Len(words) :
        /\ words[a] = "send" /\ words[b] = "rupees" /\ b > a + 1
        /\ \A c \in (a + 1)..(b - 1) : words[c] # "\n"

\* the rules whose trigger holds on the words, rule 5 only under the limit
RulesHolding(words, len) ==
    ((UNION { RuleOfWord(words[i]) : i \in 1..Len(words) })
        \cup (IF SendsRupees(words) THEN {2} ELSE {}))
    \ (IF len < AffectionMaxLen THEN {} ELSE {5})

\* the flags of a set of rules, in rule order, each once
FlagsOf(rules) ==
    LET F[k \in 0..6] ==
            IF k = 0 THEN << >>
            ELSE IF k \in rules THEN Append(F[k - 1], AllFlags[k]) ELSE F[k - 1]
    IN  F[6]

\* one trigger phrase per rule, and the message made of the phrases of a set
\* of rules
RulePhrase == << "selfie", "wallet", "camera broken", "telegram", "miss you", "bank" >>

RuleMessage(rules) ==
    LET M[k \in 0..6] ==
            IF k = 0 THEN ""
            ELSE IF k \in rules
                 THEN (IF M[k - 1] = "" THEN "" ELSE M[k - 1] \o " ") \o RulePhrase[k]
                 ELSE M[k - 1]
    IN  M[6]

\* every subset of the six flags is the result for some input
EverySubsetArises ==
    \A rules \in SUBSET (1..6) : detect_red_flags(RuleMessage(rules)) = FlagsOf(rules)

\* C4: detect_red_flags returns exactly the flags of the rules whose trigger
\* holds on the lower-cased text, in rule order 1..6 and each at most once;
\* rule 5 fires only when the text is shorter than 120 characters; every
\* subset of the six flags, the empty one and the full one included, is the
\* result for some input.
FlagsAreTheRulesHolding ==
    /\ EverySubsetArises
    /\ fl_pc = "done" => fl_flags = FlagsOf(RulesHolding(fl_words, Len(fl_text)))

\* an affection phrase in a text of exactly 120 characters: no flag at all
AffectionAtLimitUnflagged ==
    /\ fl_pc = "done"
    /\ fl_words = << "I love you", PadAt >>
    /\ Len(fl_text) = AffectionMaxLen
    /\ fl_flags = << >>

(***************************************************************************)
(* SpecPool: load_scc hands over the records of the dataset, the pool is   *)
(* built from them, and build_few_shots samples it.                        *)
(***************************************************************************)
MaxRecords == 2
MaxShots == 4

\* records json.loads can return for a line of the dataset
RecordSamples ==
    << PyDict(<< << "dialogue",
                    PyList(<< PyDict(<< << "speaker", PyStr("scammer") >>,
                                        << "text", PyStr("hi@test.com") >> >>) >>) >> >>),
       PyDict(<< << "dialogue", PyList(<< PyList(<< PyStr("target"), PyStr("ok") >>) >>) >> >>),
       PyDict(<< << "dialogue", PyList(<< PyList(<< PyStr("scammer") >>) >>) >> >>),
       PyDict(<< << "dialogue",
                    PyList(<< PyDict(<< << "speaker", PyNone >>,
                                        << "text", PyStr("hi") >> >>) >>) >> >>),
       PyDict(<< << "text", PyStr("call me on 12345678") >> >>),
       PyDict(<< << "text", PyInt(5) >> >>),
       PyDict(<< << "message", PyStr("short") >> >>),
       PyDict(<< << "id", PyInt(7) >>, << "note", PyStr("x@y.zz") >> >>),
       PyDict(<< >>),
       PyInt(5) >>

PoolInit ==
    /\ raw_samples = << >>
    /\ pool_i = 1
    /\ few_shot_pool = << >>
    /\ pool_pc = "load"
    /\ last_ex = Ok("")
    /\ shots = << >>
    /\ few_shots = ""
    /\ SessionOff /\ FlagsOff /\ SanitizeOff

\* load_scc appends the object of one more line of the file
LoadRecord(k) ==
    /\ pool_pc = "load"
    /\ Len(raw_samples) < MaxRecords
    /\ raw_samples' = Append(raw_samples, RecordSamples[k])
    /\ UNCHANGED << pool_i, few_shot_pool, pool_pc, last_ex, shots, few_shots >>
    /\ UNCHANGED << sessVars, flagVars, sanVars >>

\* load_scc returns (at once when the file is missing); few_shot_pool = []
LoadDone ==
    /\ pool_pc = "load"
    /\ pool_pc' = "build"
    /\ pool_i' = 1
    /\ few_shot_pool' = << >>
    /\ UNCHANGED << raw_samples, last_ex, shots, few_shots >>
    /\ UNCHANGED << sessVars, flagVars, sanVars >>

\* one pass of `for r in raw_samples`
PoolStep ==
    /\ pool_pc = "build"
    /\ pool_i <= Len(raw_samples)
    /\ last_ex' = make_example_from_record(raw_samples[pool_i])
    /\ few_shot_pool' = IF KeepExample(last_ex') THEN Append(few_shot_pool, last_ex'.val)
                        ELSE few_shot_pool
    /\ pool_i' = pool_i + 1
    /\ UNCHANGED << raw_samples, pool_pc, shots, few_shots >>
    /\ UNCHANGED << sessVars, flagVars, sanVars >>

\* the loop is over: `if not few_shot_pool`
PoolFinish ==
    /\ pool_pc = "build"
    /\ pool_i > Len(raw_samples)
    /\ few_shot_pool' = PoolOrFallback(few_shot_pool)
    /\ pool_pc' = "ready"
    /\ UNCHANGED << raw_samples, pool_i, last_ex, shots, few_shots >>
    /\ UNCHANGED << sessVars, flagVars, sanVars >>

\* a call build_few_shots(n), random.sample drawing the positions `draw`
BuildFewShots(n, draw) ==
    /\ pool_pc \in { "ready", "sampled" }
    /\ shots' = draw
    /\ few_shots' = build_few_shots(few_shot_pool, draw)
    /\ pool_pc' = "sampled"
    /\ UNCHANGED << raw_samples, pool_i, few_shot_pool, last_ex >>
    /\ UNCHANGED << sessVars, flagVars, sanVars >>

PoolNext ==
    \/ \E k \in 1..Len(RecordSamples) : LoadRecord(k)
    \/ LoadDone
    \/ PoolStep
    \/ PoolFinish
    \/ \E n \in 0..MaxShots : \E draw \in FewShotDraws(few_shot_pool, n) : BuildFewShots(n, draw)

SpecPool == PoolInit /\ [][PoolNext]_vars

\* C5: build_few_shots returns min(n, pool_size) examples of the pool that
\* are pairwise distinct: no example text appears twice in one prompt.
FewShotsPairwiseDistinct ==
    pool_pc = "sampled" =>
        \A a, b \in 1..Len(shots) :
            a # b => few_shot_pool[shots[a]] # few_shot_pool[shots[b]]

\* C6: make_example_from_record never raises: for every record the loader
\* supplies it returns a string.
NormalizerNeverRaises == last_ex.ok

\* the examples the records of a dataset yield: the results of more than 10
\* characters, in dataset order
KeptResults(raw) ==
    LET K[i \in 0..Len(raw)] ==
            IF i = 0 THEN << >>
            ELSE LET ex == make_example_from_record(raw[i])
                 IN  IF ex.ok /\ Len(ex.val) > 10 THEN Append(K[i - 1], ex.val)
                     ELSE K[i - 1]
    IN  K[Len(raw)]

PoolBuilt == pool_pc \in { "ready", "sampled" }

\* C9: once the pool is built it is non-empty; it holds exactly the normalizer
\* results of more than 10 characters, in dataset order, when there is one,
\* and the three built-in examples otherwise; nothing changes it afterwards.
PoolIsKeptResultsOrFallback ==
    /\ [](PoolBuilt =>
            /\ few_shot_pool # << >>
            /\ few_shot_pool = (IF KeptResults(raw_samples) = << >> THEN FallbackPool
                                ELSE KeptResults(raw_samples)))
    /\ [][PoolBuilt => few_shot_pool' = few_shot_pool]_vars

\* a pool built from a dataset whose first record is rejected by the
\* normalizer and whose second record is kept
PoolSkipsRejectedRecord ==
    /\ PoolBuilt
    /\ Len(raw_samples) = 2
    /\ ~make_example_from_record(raw_samples[1]).ok
    /\ few_shot_pool = << "call me on [REDACTED_PHONE]" >>

\* a pool built from records of which none is kept: the built-in examples
PoolFallsBack ==
    /\ PoolBuilt
    /\ raw_samples # << >>
    /\ few_shot_pool = FallbackPool

(***************************************************************************)
(* Spec: one browser session.  Every click or edit starts a run of the     *)
(* script; a run walks through session init, the first input block, the    *)
(* Clear and Send handlers, the render and the second input block.  The    *)
(* pool is the built-in one (no dataset file).                             *)
(*                                                                         *)
(* Streamlit semantics the script relies on: a button returns True only in *)
(* the run its click started; st.experimental_rerun() ends the run and     *)
(* starts a new one with no click; a widget keeps its value under its key  *)
(* in st.session_state; a second widget with a key already used in the     *)
(* same run raises DuplicateWidgetID, which ends the run.                  *)
(***************************************************************************)
MaxClock == 5
FewShotCount == 4

\* what the user may type into the box
UserTexts == { "", "  ", "hi", "mail a@b.co", "my PIN is 1234, see www.x.io" }

\* what model.generate_content may produce
ModelOutcomes ==
    { TextResp("[SIMULATION] Hey! Can you send a selfie?"),
      TextResp("  I miss you, dm me on whatsapp \n"),
      TextResp("[DEFENDER MODE] Red flag: asks for OTP"),
      TextNone,
      DictResp("hello there"),
      DictEmpty,
      ObjectResp("<response>"),
      CallRaises("timeout") }

Init ==
    /\ session_keys = {}
    /\ chat_history = << >>
    /\ input_default = ""
    /\ input_box = ""
    /\ clicked = "none"
    /\ pc = "start"
    /\ widgets = {}
    /\ user_input = ""
    /\ send_pressed = FALSE
    /\ clear_pressed = FALSE
    /\ prompt = ""
    /\ resp = NoResp
    /\ flags = << >>
    /\ clock = 0
    /\ apikey \in { "", "key" }
    /\ PoolOff /\ FlagsOff /\ SanitizeOff

\* a new run of the script begins
StartRun(click) ==
    /\ pc' = "start"
    /\ clicked' = click
    /\ widgets' = {}
    /\ user_input' = ""
    /\ send_pressed' = FALSE
    /\ clear_pressed' = FALSE

\* the user changes the text of the box, which starts a run
UserEdits(s) ==
    /\ pc = "idle"
    /\ s # input_box
    /\ input_box' = s
    /\ StartRun("none")
    /\ UNCHANGED << session_keys, chat_history, input_default, prompt, resp, flags,
                    clock, apikey >>
    /\ UNCHANGED << poolVars, flagVars, sanVars >>

ClickSend ==
    /\ pc = "idle"
    /\ clock + 2 <= MaxClock
    /\ StartRun("send")
    /\ UNCHANGED << session_keys, chat_history, input_default, input_box, prompt, resp,
                    flags, clock, apikey >>
    /\ UNCHANGED << poolVars, flagVars, sanVars >>

ClickClear ==
    /\ pc = "idle"
    /\ StartRun("clear")
    /\ UNCHANGED << session_keys, chat_history, input_default, input_box, prompt, resp,
                    flags, clock, apikey >>
    /\ UNCHANGED << poolVars, flagVars, sanVars >>

\* chat_history with the greeting and input_default are created when missing
SessionInit ==
    /\ pc = "start"
    /\ IF "chat_history" \notin session_keys
       THEN /\ chat_history' = AppendTurn(<< >>, Turn("bot", Greeting, clock + 1))
            /\ clock' = clock + 1
       ELSE UNCHANGED << chat_history, clock >>
    /\ input_default' = IF "input_default" \notin session_keys THEN "" ELSE input_default
    /\ session_keys' = session_keys \cup { "chat_history", "input_default" }
    /\ pc' = "input1"
    /\ UNCHANGED << input_box, clicked, widgets, user_input, send_pressed, clear_pressed,
                    prompt, resp, flags, apikey >>
    /\ UNCHANGED << poolVars, flagVars, sanVars >>

\* the first input block: the text box and the two buttons
InputBlock1 ==
    /\ pc = "input1"
    /\ input_box' = IF "input_box" \in session_keys THEN input_box ELSE input_default
    /\ user_input' = input_box'
    /\ send_pressed' = (clicked = "send")
    /\ clear_pressed' = (clicked = "clear")
    /\ widgets' = widgets \cup { "input_box", "send_btn", "clear_btn" }
    /\ session_keys' = session_keys \cup { "input_box" }
    /\ pc' = "handlers"
    /\ UNCHANGED << chat_history, input_default, clicked, prompt, resp, flags, clock,
                    apikey >>
    /\ UNCHANGED << poolVars, flagVars, sanVars >>

\* `if clear_pressed:` of the first block
ClearHandler1 ==
    /\ pc = "handlers"
    /\ clear_pressed
    /\ chat_history' = << >>
    /\ input_default' = ""
    /\ StartRun("none")
    /\ UNCHANGED << session_keys, input_box, prompt, resp, flags, clock, apikey >>
    /\ UNCHANGED << poolVars, flagVars, sanVars >>

\* `if send_pressed:` with a blank input: the warning, nothing else
SendBlank ==
    /\ pc = "handlers"
    /\ ~clear_pressed
    /\ send_pressed
    /\ IsBlank(user_input)
    /\ pc' = "render"
    /\ UNCHANGED << session_keys, chat_history, input_default, input_box, clicked,
                    widgets, user_input, send_pressed, clear_pressed, prompt, resp,
                    flags, clock, apikey >>
    /\ UNCHANGED << poolVars, flagVars, sanVars >>

\* `if send_pressed:` with a message, up to the call of the model: the user
\* turn is appended and the prompt is built, random.sample drawing `draw`
SendBegin(draw) ==
    /\ pc = "handlers"
    /\ ~clear_pressed
    /\ send_pressed
    /\ ~IsBlank(user_input)
    /\ LET text == InputSanitized(user_input)
       IN  /\ chat_history' = AppendTurn(chat_history, Turn("user", text, clock + 1))
           /\ prompt' = build_prompt("Catphisher", text, build_few_shots(few_shot_pool, draw))
    /\ clock' = clock + 1
    /\ resp' = NoResp
    /\ pc' = "calling"
    /\ UNCHANGED << session_keys, input_default, input_box, clicked, widgets, user_input,
                    send_pressed, clear_pressed, flags, apikey >>
    /\ UNCHANGED << poolVars, flagVars, sanVars >>

\* get_gemini_reply returns for the outcome o of the model call and the
\* handler goes on to its end: the marker check, the bot turn, the rerun.
\* No st call lies between the two appends, so no rerun request cuts in.
SendFinish(o) ==
    /\ pc = "calling"
    /\ resp' = o
    /\ prompt' = ""
    /\ LET reply == get_gemini_reply(apikey, o)
       IN  IF reply.ok
           THEN /\ chat_history' =
                       AppendTurn(chat_history, Turn("bot", EnsureMarker(reply.val), clock + 1))
                /\ clock' = clock + 1
                /\ input_default' = ""
                /\ StartRun("none")
           ELSE \* the exception ends the run
                /\ pc' = "idle"
                /\ UNCHANGED << chat_history, clock, input_default, clicked, widgets,
                                user_input, send_pressed, clear_pressed >>
    /\ UNCHANGED << session_keys, input_box, flags, apikey >>
    /\ UNCHANGED << poolVars, flagVars, sanVars >>

\* neither button was pressed
NoButton ==
    /\ pc = "handlers"
    /\ ~clear_pressed
    /\ ~send_pressed
    /\ pc' = "render"
    /\ UNCHANGED << session_keys, chat_history, input_default, input_box, clicked,
                    widgets, user_input, send_pressed, clear_pressed, prompt, resp,
                    flags, clock, apikey >>
    /\ UNCHANGED << poolVars, flagVars, sanVars >>

\* the chat window is drawn (each text through sanitize_text, into HTML only)
\* and the red flags of the last bot turn are worked out
Render ==
    /\ pc = "render"
    /\ flags' = detect_red_flags(LastBotText(chat_history))
    /\ pc' = "input2"
    /\ UNCHANGED << session_keys, chat_history, input_default, input_box, clicked,
                    widgets, user_input, send_pressed, clear_pressed, prompt, resp,
                    clock, apikey >>
    /\ UNCHANGED << poolVars, flagVars, sanVars >>

\* the second Clear and Send handlers, for the outcome o of the model call:
\* the history they leave and the number of clock readings they take (the
\* prompt they build is handed to the model and kept nowhere)
Handlers2(o) ==
    LET cleared == IF clicked = "clear" THEN << >> ELSE chat_history
        text == InputSanitized(input_box)
        reply == get_gemini_reply(apikey, o)
        withUser == AppendTurn(cleared, Turn("user", text, clock + 1))
    IN  IF clicked = "send" /\ ~IsBlank(input_box)
        THEN IF reply.ok
             THEN [history |-> AppendTurn(withUser,
                                          Turn("bot", EnsureMarker(reply.val), clock + 2)),
                   readings |-> 2]
             ELSE [history |-> withUser, readings |-> 1]
        ELSE [history |-> cleared, readings |-> 0]

\* the second input block creates its text box under the key "input_box"
\* again: the run ends there with DuplicateWidgetID, before its buttons and
\* its handlers
InputBlock2 ==
    /\ pc = "input2"
    /\ IF DuplicateWidgetKey(widgets, "input_box")
       THEN UNCHANGED << chat_history, clock >>
       ELSE \E o \in (IF apikey = "" THEN { NoResp } ELSE ModelOutcomes) :
               /\ chat_history' = Handlers2(o).history
               /\ clock' = clock + Handlers2(o).readings
    /\ pc' = "idle"
    /\ UNCHANGED << session_keys, input_default, input_box, clicked, widgets, user_input,
                    send_pressed, clear_pressed, prompt, resp, flags, apikey >>
    /\ UNCHANGED << poolVars, flagVars, sanVars >>

Next ==
    \/ \E s \in UserTexts : UserEdits(s)
    \/ ClickSend
    \/ ClickClear
    \/ SessionInit
    \/ InputBlock1
    \/ ClearHandler1
    \/ SendBlank
    \/ \E draw \in FewShotDraws(few_shot_pool, FewShotCount) : SendBegin(draw)
    \/ \E o \in (IF apikey = "" THEN { NoResp } ELSE ModelOutcomes) : SendFinish(o)
    \/ NoButton
    \/ Render
    \/ InputBlock2

Spec == Init /\ [][Next]_vars

(***************************************************************************)
(* The session's properties.                                               *)
(***************************************************************************)
LastTurn(history) == history[Len(history)]

IsPrefix(a, b) == Len(a) <= Len(b) /\ SubSeq(b, 1, Len(a)) = a

\* history b is history a with one turn of the role appended
OneTurnAppended(a, b, role) ==
    /\ Len(b) = Len(a) + 1
    /\ IsPrefix(a, b)
    /\ LastTurn(b).role = role

\* C1: every bot turn stored in chat_history starts with "[SIMULATION]" or
\* "[DEFENDER MODE]": the greeting, and every reply a Send stores, whatever
\* get_gemini_reply returned.
BotTurnsCarryMarker ==
    \A i \in 1..Len(chat_history) :
        chat_history[i].role = "bot" =>
            \/ StartsWith(chat_history[i].text, "[SIMULATION]")
            \/ StartsWith(chat_history[i].text, "[DEFENDER MODE]")

\* a reply of the model without a marker was stored with the marker in front
MarkerAddedToReply ==
    /\ resp = DictResp("hello there")
    /\ chat_history # << >>
    /\ LastTurn(chat_history).role = "bot"
    /\ LastTurn(chat_history).text = "[SIMULATION] hello there"

\* no email address, phone number, URL or sensitive term in the text
FreeOfPii(t) == ~HasEmail(t) /\ ~HasPhone(t) /\ ~HasUrl(t) /\ ~SensitiveFound(t)

\* C2: the text stored in a user turn and the text in the "User message" slot
\* of the prompt handed to get_gemini_reply went through the sensitive-term
\* stripper and sanitize_text: neither holds an email address, a phone
\* number, a URL or a sensitive term.
UserTextIsSanitized ==
    /\ \A i \in 1..Len(chat_history) :
          chat_history[i].role = "user" => FreeOfPii(chat_history[i].text)
    /\ pc = "calling" => FreeOfPii(UserMessageSlot(prompt))

\* C7: a failure of the model call is not raised to the Send handler: the
\* handler, once it has called get_gemini_reply, always appends a bot turn,
\* and when the key is missing or the call failed that turn is the notice,
\* with the safety marker in front and the description of the error.
FailureBecomesBotTurn ==
    [][pc = "calling" =>
          /\ OneTurnAppended(chat_history, chat_history', "bot")
          /\ (apikey = "" \/ resp'.kind \in { "raises", "dict_empty", "text_none" }) =>
                /\ StartsWith(LastTurn(chat_history').text, "[SIMULATION]")
                /\ \/ Contains(LastTurn(chat_history').text, "Gemini API key not set")
                   \/ Contains(LastTurn(chat_history').text, "Error contacting Gemini: ")]_vars

\* the model call raised and the notice is the bot turn of that Send
ModelErrorStoredAsTurn ==
    /\ resp = CallRaises("timeout")
    /\ Len(chat_history) >= 2
    /\ chat_history[Len(chat_history) - 1].role = "user"
    /\ LastTurn(chat_history).role = "bot"
    /\ LastTurn(chat_history).text = "[SIMULATION] (Error contacting Gemini: timeout)"

\* the step is the Clear handler acting on a Clear click
ClearStep == pc = "handlers" /\ clear_pressed /\ clicked = "clear"

\* C8: chat_history is append-only: every step other than the Clear handler's
\* leaves the stored turns unchanged as a prefix of the new history, and the
\* history becomes empty only by the Clear handler acting on a Clear click.
HistoryAppendOnly ==
    [][/\ ClearStep \/ IsPrefix(chat_history, chat_history')
       /\ (chat_history # << >> /\ chat_history' = << >>) => ClearStep]_vars

\* a history that was cleared and has grown again by a Send
HistoryGrewAfterClear ==
    /\ Len(chat_history) = 2
    /\ chat_history[1].role = "user"
    /\ chat_history[2].role = "bot"

\* each user turn is immediately followed by a bot turn (but for the moment
\* the Send handler waits for the model)
UserTurnsAnswered ==
    pc # "calling" =>
        \A i \in 1..Len(chat_history) :
            chat_history[i].role = "user" =>
                i < Len(chat_history) /\ chat_history[i + 1].role = "bot"

\* C10: a Send click with empty or whitespace-only input leaves chat_history
\* unchanged; with any other input it appends one user turn and, right after
\* it, one bot turn; the second pair of handlers never acts, so each click is
\* handled once and every user turn is immediately followed by a bot turn.
SendAppendsPairOrNothing ==
    /\ []UserTurnsAnswered
    /\ [][/\ (pc = "handlers" /\ send_pressed /\ str_strip(user_input) = "") =>
                chat_history' = chat_history
          /\ (pc = "handlers" /\ send_pressed /\ str_strip(user_input) # "") =>
                OneTurnAppended(chat_history, chat_history', "user") /\ pc' = "calling"
          /\ pc = "calling" =>
                OneTurnAppended(chat_history, chat_history', "bot") /\ clicked' = "none"
          /\ (pc = "handlers" /\ ~send_pressed /\ ~clear_pressed) =>
                chat_history' = chat_history
          /\ pc \in { "idle", "input1", "render", "input2" } =>
                chat_history' = chat_history]_vars

\* a Send click on a whitespace-only input went through the handler and the
\* history still holds the greeting only
BlankSendLeftHistory ==
    /\ pc = "render"
    /\ send_pressed
    /\ user_input = "  "
    /\ Len(chat_history) = 1

====
